---- MODULE Spec2Model ----
(***************************************************************************)
(* Function stubbing in the Kani compiler: the path resolver and the      *)
(* collection pass of stubbing/annotations.rs, the stub map store and the *)
(* stubbing pass of stubbing/transform.rs (and its file-based predecessor *)
(* in codegen_cprover_gotoc/mir_transform), and the optimized_mir wrapper *)
(* of mir_transform/mod.rs.                                               *)
(***************************************************************************)
EXTENDS Integers, Sequences, FiniteSets, TLC

(***************************************************************************)
(* Strings.  A Rust string is a sequence of atoms; an atom is an          *)
(* identifier, a keyword, the path separator "::" or the blank " ".       *)
(* str.split(sep) and [..].join(sep) are computed on that sequence.       *)
(***************************************************************************)
SEP == "::"

BLANK == " "

RECURSIVE SplitFrom(_, _, _, _)
SplitFrom(s, sep, i, cur) ==
    IF i > Len(s) THEN <<cur>>
    ELSE IF s[i] = sep THEN <<cur>> \o SplitFrom(s, sep, i + 1, <<>>)
    ELSE SplitFrom(s, sep, i + 1, Append(cur, s[i]))

\* str::split: the pieces between the separators; "" splits into one empty piece
Split(s, sep) == SplitFrom(s, sep, 1, <<>>)

RECURSIVE Join(_, _)
\* [String]::join
Join(segs, sep) ==
    IF Len(segs) = 0 THEN <<>>
    ELSE IF Len(segs) = 1 THEN segs[1]
    ELSE segs[1] \o <<sep>> \o Join(Tail(segs), sep)

\* Vec::remove(0) on a clone of the path
RemoveFirst(path) == Tail(path)

\* Option<T>
None == [some |-> FALSE]

Some(v) == [some |-> TRUE, val |-> v]

(***************************************************************************)
(* The compilation universe: one local crate and one foreign crate        *)
(* "other".  A DefId is an index into DefTable, in source order.          *)
(*                                                                         *)
(*   pub fn foo() {}   fn bar() {}   use other::util::f as g;             *)
(*   pub mod a { fn f() {}  pub fn g() {}                                 *)
(*               pub mod inner { pub fn h() {} } }                        *)
(*   pub mod b { use crate::a::*;  pub fn f() {}                          *)
(*               use crate::a::inner as m;  use other::util; }            *)
(*   mod c { use crate::d::*; }     mod d { use crate::c::*; }            *)
(*   struct S;                                                            *)
(*   crate other: pub mod util { pub fn f() {} }   pub fn top() {}        *)
(***************************************************************************)
Item(kind, krate, parent, name, pub, ukind, res) ==
    [kind |-> kind, krate |-> krate, parent |-> parent, name |-> name,
     pub |-> pub, ukind |-> ukind, res |-> res]

DefTable ==
    << Item("Mod",   "local", 0,  <<>>,        TRUE,  "",       0),   \* 1  crate root
       Item("Fn",    "local", 1,  <<"foo">>,   TRUE,  "",       0),   \* 2  foo
       Item("Fn",    "local", 1,  <<"bar">>,   FALSE, "",       0),   \* 3  bar
       Item("Use",   "local", 1,  <<"g">>,     FALSE, "Single", 22),  \* 4  use other::util::f as g
       Item("Mod",   "local", 1,  <<"a">>,     TRUE,  "",       0),   \* 5  a
       Item("Fn",    "local", 5,  <<"f">>,     FALSE, "",       0),   \* 6  a::f (private)
       Item("Fn",    "local", 5,  <<"g">>,     TRUE,  "",       0),   \* 7  a::g
       Item("Mod",   "local", 5,  <<"inner">>, TRUE,  "",       0),   \* 8  a::inner
       Item("Fn",    "local", 8,  <<"h">>,     TRUE,  "",       0),   \* 9  a::inner::h
       Item("Mod",   "local", 1,  <<"b">>,     TRUE,  "",       0),   \* 10 b
       Item("Use",   "local", 10, <<>>,        FALSE, "Glob",   5),   \* 11 use crate::a::*
       Item("Fn",    "local", 10, <<"f">>,     TRUE,  "",       0),   \* 12 b::f
       Item("Use",   "local", 10, <<"m">>,     FALSE, "Single", 8),   \* 13 use crate::a::inner as m
       Item("Use",   "local", 10, <<"util">>,  FALSE, "Single", 21),  \* 14 use other::util
       Item("Mod",   "local", 1,  <<"c">>,     FALSE, "",       0),   \* 15 c
       Item("Use",   "local", 15, <<>>,        FALSE, "Glob",   17),  \* 16 use crate::d::*
       Item("Mod",   "local", 1,  <<"d">>,     FALSE, "",       0),   \* 17 d
       Item("Use",   "local", 17, <<>>,        FALSE, "Glob",   15),  \* 18 use crate::c::*
       Item("Other", "local", 1,  <<"S">>,     TRUE,  "",       0),   \* 19 struct S
       Item("Mod",   "other", 0,  <<"other">>, TRUE,  "",       0),   \* 20 crate other
       Item("Mod",   "other", 20, <<"util">>,  TRUE,  "",       0),   \* 21 other::util
       Item("Fn",    "other", 21, <<"f">>,     TRUE,  "",       0),   \* 22 other::util::f
       Item("Fn",    "other", 20, <<"top">>,   TRUE,  "",       0) >> \* 23 other::top

DefIds == 1 .. Len(DefTable)

\* DefId::as_local / is_local
IsLocal(d) == DefTable[d].krate = "local"

RECURSIVE def_path_str(_)
\* tcx.def_path_str: the printed path; the local crate root prints as ""
def_path_str(d) ==
    IF DefTable[d].parent = 0 THEN DefTable[d].name
    ELSE LET p == def_path_str(DefTable[d].parent)
         IN  IF DefTable[d].kind = "Use" THEN p \o <<SEP, "{use}">>
             ELSE IF p = <<>> THEN DefTable[d].name
             ELSE p \o <<SEP>> \o DefTable[d].name

\* every DefId, in definition order
AllIds == [i \in DefIds |-> i]

\* tcx.iter_local_def_id(), in definition order
iter_local_def_id == SelectSeq(AllIds, IsLocal)

\* the function definitions: the definitions that have a MIR body
FnDefs == {d \in DefIds : DefTable[d].kind = "Fn"}

(***************************************************************************)
(* The state: of a generation run, of one resolver call, and of a         *)
(* collection run.                                                         *)
(***************************************************************************)
VARIABLES
    variant,        \* which mir_transform module is wired in: "queries" or "legacy"
    queries,        \* QueryDb.stub_mapping
    stubs_file,     \* the legacy stubs file: None when it cannot be opened
    STUB_MAPPING,   \* the static: Option<HashMap<String, String>>
    lock,           \* the RwLock around it: [readers, writer, waiting]
    providers,      \* whether providers.optimized_mir is the wrapper: [local, extern]
    init_pc,        \* progress of a running initialize: [who, line]
    stack,          \* the nested body queries in progress, innermost last
    returned,       \* the body each finished body query returned
    fatal,          \* "none", or the panic that ended the process
    history         \* what has happened so far: installs, reads, queries

genVars ==
    <<variant, queries, stubs_file, STUB_MAPPING, lock, providers, init_pc, stack,
      returned, fatal, history>>

VARIABLES
    res_module,     \* current_module of the call
    res_name,       \* name of the call
    res_result      \* None before the call, Some(result) after it

resVars == <<res_module, res_name, res_result>>

VARIABLES
    attrs,          \* partition_kanitool_attributes of every item: [proof, other]
    item_idx,       \* position of the walk in hir_crate_items
    attr_idx,       \* 0 between items, else the next attribute of the harness
    stub_pairs,     \* the stub set of the harness being processed
    stub_mapping,   \* callbacks.stub_mapping
    diags,          \* the errors given to tcx.sess.span_err, in order
    coll_pc,        \* "walk", "stopped", "aborted", or "crashed"
    log             \* the stub_by attributes processed so far

collVars ==
    <<attrs, item_idx, attr_idx, stub_pairs, stub_mapping, diags, coll_pc, log>>

vars == <<genVars, resVars, collVars>>

(***************************************************************************)
(* MIR bodies.  The default provider's body of a definition is identified *)
(* by the definition; Body::clone copies it.                              *)
(***************************************************************************)
\* (*rustc_interface::DEFAULT_QUERY_PROVIDERS).optimized_mir / the extern one
BaseBody(d) == [mir |-> d]

\* Body::clone
Clone(body) == body

(***************************************************************************)
(* Hash maps of strings.                                                   *)
(***************************************************************************)
EmptyMap == [k \in {} |-> <<>>]

\* HashMap::insert: the new value replaces an old one
MapInsert(m, k, v) == [x \in (DOMAIN m) \cup {k} |-> IF x = k THEN v ELSE m[x]]

\* HashMap::get
MapGet(m, k) == IF k \in DOMAIN m THEN Some(m[k]) ELSE None

(***************************************************************************)
(* Bounds of the generation model.                                        *)
(***************************************************************************)
\* most entries of a stub mapping
MaxStubs == 2

\* most lines of the legacy stubs file
MaxLines == 2

\* most body queries the back end issues in one run
MaxQueries == 2

\* deepest nesting of body queries that is followed
MaxDepth == 4

\* the definitions the back end asks bodies for
QueryDefs == {2, 3, 7, 23}

\* a canonical path that no definition of the generation crate has
GONE == <<"gone">>

KeyPaths == {def_path_str(d) : d \in {2, 3, 7, 23}}

ValPaths == KeyPaths \cup {GONE}

\* the stub mappings a QueryDb may hold
Maps ==
    UNION {[D -> ValPaths] : D \in {S \in SUBSET KeyPaths : Cardinality(S) <= MaxStubs}}

\* the lines a stubs file may hold: "ORIGINAL REPLACEMENT", and malformed ones
Lines ==
    { <<"foo", BLANK, "bar">>,
      <<"foo", BLANK, "a", SEP, "g">>,
      <<"bar", BLANK, "gone">>,
      <<"a", SEP, "g", BLANK, "foo">>,
      <<"foo">>,
      <<"foo", BLANK, BLANK, "bar">>,
      <<"gone", BLANK>> }

Files == UNION {[1 .. n -> Lines] : n \in 0 .. MaxLines}

\* QueryDb::get_stub_mapping
get_stub_mapping == queries

\* STUB_MAPPING.write() succeeds when nobody holds the lock
CanWrite == lock.readers = 0 /\ ~lock.writer

\* STUB_MAPPING.read() succeeds when no writer holds the lock and no writer the
\* lock gives precedence to is queued for it
CanRead == ~lock.writer /\ ~lock.waiting

NoteInstall(h) ==
    [h EXCEPT !.installs = @ + 1, !.write_after_read = @ \/ h.reads]

NoteRead(h, seen) ==
    [h EXCEPT !.reads = TRUE,
              !.first_seen = IF h.reads THEN @ ELSE seen,
              !.last_seen = seen,
              !.changed = @ \/ (h.reads /\ seen # h.last_seen)]

GenInit ==
    /\ variant \in {"queries", "legacy"}
    /\ queries \in (IF variant = "queries" THEN Maps ELSE {EmptyMap})
    /\ stubs_file \in (IF variant = "legacy"
                       THEN {None} \cup {Some(f) : f \in Files} ELSE {None})
    /\ STUB_MAPPING = None
    /\ lock = [readers |-> 0, writer |-> FALSE, waiting |-> FALSE]
    /\ providers = [local |-> FALSE, extern |-> FALSE]
    /\ init_pc = [who |-> "none", line |-> 0]
    /\ stack = <<>>
    /\ returned = [d \in FnDefs |-> None]
    /\ fatal = "none"
    /\ history = [installs |-> 0, reads |-> FALSE, write_after_read |-> FALSE,
                  first_seen |-> None, last_seen |-> None, changed |-> FALSE,
                  queries |-> 0]

\* StubbingPass::set_stub_mapping: the slot is overwritten under the write lock
set_stub_mapping(mapping) ==
    /\ CanWrite
    /\ STUB_MAPPING' = Some(mapping)
    /\ history' = NoteInstall(history)
    /\ lock' = [lock EXCEPT !.waiting = FALSE]

\* mir_transform::provide
Provide ==
    /\ variant = "queries" /\ fatal = "none"
    /\ ~providers.local
    /\ set_stub_mapping(get_stub_mapping)
    /\ providers' = [providers EXCEPT !.local = TRUE]
    /\ UNCHANGED <<variant, queries, stubs_file, init_pc, stack, returned, fatal>>
    /\ UNCHANGED <<resVars, collVars>>

\* mir_transform::provide_extern
ProvideExtern ==
    /\ variant = "queries" /\ fatal = "none"
    /\ ~providers.extern
    /\ set_stub_mapping(get_stub_mapping)
    /\ providers' = [providers EXCEPT !.extern = TRUE]
    /\ UNCHANGED <<variant, queries, stubs_file, init_pc, stack, returned, fatal>>
    /\ UNCHANGED <<resVars, collVars>>

(***************************************************************************)
(* The legacy installer, codegen_cprover_gotoc/mir_transform/stubbing.rs: *)
(* initialize holds the write guard from its first line to its return.    *)
(***************************************************************************)
\* let mut guard = STUB_MAPPING.write().unwrap(); guard.insert(HashMap::new());
\* File::open(stubs_file).expect(..)
InitializeBegin(who) ==
    /\ variant = "legacy" /\ fatal = "none"
    /\ init_pc.who = "none" /\ ~providers[who]
    /\ CanWrite
    /\ lock' = [lock EXCEPT !.writer = TRUE, !.waiting = FALSE]
    /\ STUB_MAPPING' = Some(EmptyMap)
    /\ history' = NoteInstall(history)
    /\ init_pc' = [who |-> who, line |-> 1]
    /\ fatal' = IF stubs_file.some THEN "none" ELSE "cannot_find_stubs_file"
    /\ UNCHANGED <<variant, queries, stubs_file, providers, stack, returned>>
    /\ UNCHANGED <<resVars, collVars>>

\* an initialize that takes the write guard anew for each line
InitializeLineOwnGuard ==
    /\ variant = "legacy" /\ fatal = "none"
    /\ init_pc.who # "none" /\ init_pc.line <= Len(stubs_file.val)
    /\ LET pair == Split(stubs_file.val[init_pc.line], BLANK)
       IN  IF Len(pair) = 2
           THEN /\ STUB_MAPPING' = Some(MapInsert(STUB_MAPPING.val, pair[1], pair[2]))
                /\ init_pc' = [init_pc EXCEPT !.line = @ + 1]
                /\ UNCHANGED fatal
           ELSE /\ fatal' = "assert_eq_pair_len"
                /\ UNCHANGED <<STUB_MAPPING, init_pc>>
    /\ lock' = [lock EXCEPT !.writer = FALSE]
    /\ UNCHANGED <<variant, queries, stubs_file, providers, stack, returned, history>>
    /\ UNCHANGED <<resVars, collVars>>

\* one turn of `for line in buf.lines()`: split, assert_eq!(pair.len(), 2), insert
InitializeLine ==
    /\ variant = "legacy" /\ fatal = "none"
    /\ init_pc.who # "none" /\ init_pc.line <= Len(stubs_file.val)
    /\ LET pair == Split(stubs_file.val[init_pc.line], BLANK)
       IN  IF Len(pair) = 2
           THEN /\ STUB_MAPPING' = Some(MapInsert(STUB_MAPPING.val, pair[1], pair[2]))
                /\ init_pc' = [init_pc EXCEPT !.line = @ + 1]
                /\ UNCHANGED fatal
           ELSE /\ fatal' = "assert_eq_pair_len"
                /\ UNCHANGED <<STUB_MAPPING, init_pc>>
    /\ UNCHANGED <<variant, queries, stubs_file, lock, providers, stack, returned,
                   history>>
    /\ UNCHANGED <<resVars, collVars>>

\* initialize returns and drops the guard; provide / provide_extern then sets
\* providers.optimized_mir
InitializeEnd ==
    /\ variant = "legacy" /\ fatal = "none"
    /\ init_pc.who # "none" /\ init_pc.line > Len(stubs_file.val)
    /\ lock' = [lock EXCEPT !.writer = FALSE]
    /\ providers' = [providers EXCEPT ![init_pc.who] = TRUE]
    /\ init_pc' = [who |-> "none", line |-> 0]
    /\ UNCHANGED <<variant, queries, stubs_file, STUB_MAPPING, stack, returned, fatal,
                   history>>
    /\ UNCHANGED <<resVars, collVars>>

(***************************************************************************)
(* The optimized_mir wrapper and its passes.                               *)
(***************************************************************************)
\* the passes run_kani_passes applies, in order
\* a legacy run_kani_passes with its two calls exchanged
KaniPassesSwapped ==
    IF variant = "legacy" THEN <<"stubbing", "identity">> ELSE <<"stubbing">>

KaniPasses ==
    IF variant = "legacy" THEN <<"identity", "stubbing">> ELSE <<"stubbing">>

\* an identity pass that touches the body
IdentityPassEdits(body) == [mir |-> 0]

\* IdentityPass::run_pass: "do nothing"
IdentityPass_run_pass(body) == body

\* a get_def_id that scans every crate's definitions
get_def_id_all_crates(path) ==
    LET hits == SelectSeq(AllIds, LAMBDA id : def_path_str(id) = path)
    IN  IF Len(hits) > 0 THEN Some(hits[1]) ELSE None

\* StubbingPass::get_def_id: the first local definition printed as `path`
get_def_id(path) ==
    LET hits == SelectSeq(iter_local_def_id, LAMBDA id : def_path_str(id) = path)
    IN  IF Len(hits) > 0 THEN Some(hits[1]) ELSE None

\* a run_pass that never finds an entry
ReplacementIgnoresMap(mapping, name) == None

\* StubbingPass::run_pass, its decision: the replacement whose body is fetched
Replacement(mapping, name) ==
    LET r == MapGet(mapping, name)
    IN  IF r.some THEN get_def_id(r.val) ELSE None

\* run_transformation_passes(_extern): the base body, cloned by run_kani_passes
\* `base` is the `body: &Body` handed over, `body` the `new_body` the passes
\* are given
NewFrame(d) ==
    [def |-> d, base |-> BaseBody(d), body |-> Clone(BaseBody(d)), pass |-> 1,
     await |-> FALSE, ran |-> <<>>]

\* a run_pass that fetches the replacement and keeps its own body
OverwriteDropped(old, fetched) == old

\* the body a finished nested query hands to `*body = ...clone()`
Overwrite(old, fetched) == Clone(fetched)

Top == stack[Len(stack)]

SetTop(f) == [stack EXCEPT ![Len(stack)] = f]

\* the back end asks for the optimized MIR of d
BeginQuery(d) ==
    /\ fatal = "none" /\ stack = <<>>
    /\ history.queries < MaxQueries
    /\ stack' = <<NewFrame(d)>>
    /\ history' = [history EXCEPT !.queries = @ + 1]
    /\ UNCHANGED <<variant, queries, stubs_file, STUB_MAPPING, lock, providers,
                   init_pc, returned, fatal>>
    /\ UNCHANGED <<resVars, collVars>>

\* run_kani_passes: the identity pass of the legacy wrapper
IdentityStep ==
    /\ fatal = "none" /\ stack # <<>>
    /\ ~Top.await /\ Top.pass <= Len(KaniPasses)
    /\ KaniPasses[Top.pass] = "identity"
    /\ stack' = SetTop([Top EXCEPT !.body = IdentityPass_run_pass(@),
                                   !.pass = @ + 1,
                                   !.ran = Append(@, "identity")])
    /\ UNCHANGED <<variant, queries, stubs_file, STUB_MAPPING, lock, providers,
                   init_pc, returned, fatal, history>>
    /\ UNCHANGED <<resVars, collVars>>

\* StubbingPass::run_pass up to the nested tcx.optimized_mir(replacement_id),
\* or to its end when there is nothing to fetch
StubbingStep ==
    /\ fatal = "none" /\ stack # <<>>
    /\ ~Top.await /\ Top.pass <= Len(KaniPasses)
    /\ KaniPasses[Top.pass] = "stubbing"
    /\ CanRead
    /\ IF ~STUB_MAPPING.some
       THEN /\ fatal' = "stub_mapping_not_installed"
            /\ UNCHANGED <<stack, lock, history>>
       ELSE LET rid == Replacement(STUB_MAPPING.val, def_path_str(Top.def))
            IN  /\ rid.some => Len(stack) < MaxDepth
                /\ history' = NoteRead(history, STUB_MAPPING)
                /\ UNCHANGED fatal
                /\ IF rid.some
                   THEN /\ lock' = [lock EXCEPT !.readers = @ + 1]
                        /\ stack' = Append(SetTop([Top EXCEPT !.await = TRUE]),
                                           NewFrame(rid.val))
                   ELSE /\ stack' = SetTop([Top EXCEPT !.pass = @ + 1,
                                                       !.ran = Append(@, "stubbing")])
                        /\ UNCHANGED lock
    /\ UNCHANGED <<variant, queries, stubs_file, STUB_MAPPING, providers, init_pc,
                   returned>>
    /\ UNCHANGED <<resVars, collVars>>

\* run_kani_passes returns tcx.arena.alloc(new_body); a waiting run_pass
\* overwrites its body with a clone of it and drops its read guard
ReturnStep ==
    /\ fatal = "none" /\ stack # <<>>
    /\ Top.pass > Len(KaniPasses)
    /\ returned' = [returned EXCEPT ![Top.def] = Some(Top.body)]
    /\ IF Len(stack) = 1
       THEN /\ stack' = <<>>
            /\ UNCHANGED lock
       ELSE LET rest == SubSeq(stack, 1, Len(stack) - 1)
                par == rest[Len(rest)]
            IN  /\ stack' = [rest EXCEPT ![Len(rest)] =
                                [par EXCEPT !.body = Overwrite(@, Top.body),
                                            !.await = FALSE,
                                            !.pass = @ + 1,
                                            !.ran = Append(@, "stubbing")]]
                /\ lock' = [lock EXCEPT !.readers = @ - 1]
    /\ UNCHANGED <<variant, queries, stubs_file, STUB_MAPPING, providers, init_pc,
                   fatal, history>>
    /\ UNCHANGED <<resVars, collVars>>

\* provide and provide_extern have both run
SetupDone == providers.local /\ providers.extern

\* providers.optimized_mir = run_transformation_passes(_extern): the wrapper
\* answers for a definition once the provider function of its crate has run
Registered(d) == IF IsLocal(d) THEN providers.local ELSE providers.extern

\* a body query of a generation run
Query(d) == Registered(d) /\ BeginQuery(d)

(***************************************************************************)
(* The path resolver, stubbing/annotations.rs.  A resolution ends in      *)
(* Some(canonical path), in None, in a panic (an index past the end of    *)
(* the path), or it recurses without end: the search keeps no set of      *)
(* visited modules, and the model follows MaxFuel nested searches.        *)
(***************************************************************************)
\* deepest nesting of module searches that is followed
MaxFuel == 6

ResSome(path) == [kind |-> "Some", path |-> path]

ResNone == [kind |-> "None", path |-> <<>>]

ResPanic == [kind |-> "Panic", path |-> <<>>]

ResDiverge == [kind |-> "Diverge", path |-> <<>>]

\* the modules of the local crate
LocalMods == {d \in DefIds : IsLocal(d) /\ DefTable[d].kind = "Mod"}

\* tcx.hir().module_items(module): the items of the module itself, in order
module_items(m) == SelectSeq(AllIds, LAMBDA d : IsLocal(d) /\ DefTable[d].parent = m)

\* tcx.module_children(module): the exported children of a foreign module
module_children(m) ==
    SelectSeq(AllIds, LAMBDA d : DefTable[d].parent = m /\ DefTable[d].pub)

\* tcx.parent_module_from_def_id: the enclosing module; the crate root's is itself
parent_module_from_def_id(d) ==
    IF DefTable[d].parent = 0 THEN d ELSE DefTable[d].parent

\* tcx.crates(()): the foreign crates, by their root module
crates == SelectSeq(AllIds, LAMBDA d : ~IsLocal(d) /\ DefTable[d].parent = 0)

\* tcx.crate_name
crate_name(c) == DefTable[c].name

\* is_absolute_path
is_absolute_path(path) ==
    path[1] \in {<<"crate">>, <<"super">>, <<"self">>, <<"{{root}}">>}

\* try_resolve_use: Fn(path) when the item imports a function under the whole
\* name, Mod(def) when it imports a module, NotResolved otherwise
try_resolve_use(name, item) ==
    LET res == DefTable[item].res
    IN  IF res = 0 THEN [kind |-> "NotResolved"]
        ELSE IF DefTable[res].kind = "Fn"
        THEN IF DefTable[item].name = name
             THEN [kind |-> "Fn", path |-> def_path_str(res)]
             ELSE [kind |-> "NotResolved"]
        ELSE IF DefTable[res].kind = "Mod" THEN [kind |-> "Mod", def |-> res]
        ELSE [kind |-> "NotResolved"]

RECURSIVE try_resolve_foreign_module(_, _, _)
RECURSIVE ForeignScan(_, _, _, _, _)
ForeignScan(foreign_mod, path, children, i, fuel) ==
    IF i > Len(children) THEN ResNone
    ELSE IF Len(path) = 0 THEN ResPanic
    ELSE LET child == children[i]
             here ==
                 IF DefTable[child].name # path[1] THEN ResNone
                 ELSE IF DefTable[child].kind = "Fn"
                 THEN IF Len(path) = 1 THEN ResSome(def_path_str(child)) ELSE ResNone
                 ELSE IF DefTable[child].kind = "Mod"
                 THEN IF Len(path) > 1
                      THEN try_resolve_foreign_module(child, RemoveFirst(path), fuel - 1)
                      ELSE ResNone
                 ELSE ResNone
         IN  IF here.kind = "None"
             THEN ForeignScan(foreign_mod, path, children, i + 1, fuel)
             ELSE here

\* try_resolve_foreign_module
try_resolve_foreign_module(foreign_mod, path, fuel) ==
    IF fuel = 0 THEN ResDiverge
    ELSE ForeignScan(foreign_mod, path, module_children(foreign_mod), 1, fuel)

RECURSIVE try_resolve_relative_path(_, _, _)
RECURSIVE RelativeScan(_, _, _, _, _)
RelativeScan(current_module, path, items, i, fuel) ==
    IF i > Len(items) THEN ResNone
    ELSE LET item == items[i]
             name == Join(path, SEP)
             module_name == def_path_str(current_module)
             qualified_name ==
                 IF module_name = <<>> THEN name ELSE module_name \o <<SEP>> \o name
             \* the loop over used_mods, which holds at most this item's module
             explore(mod_id, p) ==
                 IF IsLocal(mod_id)
                 THEN try_resolve_relative_path(mod_id, p, fuel - 1)
                 ELSE try_resolve_foreign_module(mod_id, p, fuel - 1)
             use == try_resolve_use(name, item)
             here ==
                 IF DefTable[item].kind = "Fn"
                 THEN IF qualified_name = def_path_str(item)
                      THEN ResSome(def_path_str(item)) ELSE ResNone
                 ELSE IF DefTable[item].kind = "Use"
                 THEN IF use.kind = "Fn" THEN ResSome(use.path)
                      ELSE IF use.kind = "Mod"
                      THEN IF DefTable[item].ukind = "Single"
                           THEN IF Len(path) = 0 THEN ResPanic
                                ELSE IF DefTable[item].name = path[1]
                                THEN explore(use.def, RemoveFirst(path))
                                ELSE ResNone
                           ELSE IF DefTable[item].ukind = "Glob"
                           THEN explore(use.def, path)
                           ELSE ResNone
                      ELSE ResNone
                 ELSE ResNone
         IN  IF here.kind = "None"
             THEN RelativeScan(current_module, path, items, i + 1, fuel)
             ELSE here

\* try_resolve_relative_path
try_resolve_relative_path(current_module, path, fuel) ==
    IF fuel = 0 THEN ResDiverge
    ELSE RelativeScan(current_module, path, module_items(current_module), 1, fuel)

\* a "crate" arm without its loop: the search stays at the current module
CrateRootStays(cur) == cur

RECURSIVE CrateRootFrom(_)
\* the `loop` of the "crate" arm: up the parent modules to the one printed ""
CrateRootFrom(cur) ==
    IF def_path_str(cur) = <<>> THEN cur
    ELSE CrateRootFrom(parent_module_from_def_id(cur))

\* a "{{root}}" arm that does not compare the crate name
CrateScanAnyCrate(first, path, i, fuel) ==
    try_resolve_foreign_module(crates[1], path, fuel)

RECURSIVE CrateScan(_, _, _, _)
\* the loop over tcx.crates(()) of the "{{root}}" arm
CrateScan(first, path, i, fuel) ==
    IF i > Len(crates) THEN ResNone
    ELSE IF crate_name(crates[i]) = first
    THEN try_resolve_foreign_module(crates[i], path, fuel)
    ELSE CrateScan(first, path, i + 1, fuel)

RECURSIVE try_resolve_absolute_path_rec(_, _, _)
\* try_resolve_absolute_path_rec
try_resolve_absolute_path_rec(current_module, path, fuel) ==
    IF path[1] = <<"self">>
    THEN IF Len(path) > 1
         THEN try_resolve_absolute_path_rec(current_module, RemoveFirst(path), fuel)
         ELSE ResNone
    ELSE IF path[1] = <<"crate">>
    THEN IF Len(path) > 1
         THEN try_resolve_relative_path(CrateRootFrom(current_module),
                                        RemoveFirst(path), fuel)
         ELSE ResNone
    ELSE IF path[1] = <<"super">>
    THEN IF def_path_str(current_module) = <<>> \/ Len(path) < 2 THEN ResNone
         ELSE try_resolve_relative_path(parent_module_from_def_id(current_module),
                                        RemoveFirst(path), fuel)
    ELSE IF path[1] = <<"{{root}}">>
    THEN IF Len(path) < 3 THEN ResNone
         ELSE CrateScan(path[2], RemoveFirst(RemoveFirst(path)), 1, fuel)
    ELSE try_resolve_relative_path(current_module, path, fuel)

\* try_resolve_absolute_path
try_resolve_absolute_path(current_module, path) ==
    try_resolve_absolute_path_rec(current_module, path, MaxFuel)

\* try_resolve, its result; a None comes with a span_err "unable to resolve"
try_resolve(name, current_module) ==
    LET path == Split(name, SEP)
    IN  IF is_absolute_path(path)
        THEN try_resolve_absolute_path(current_module, path)
        ELSE try_resolve_relative_path(current_module, path, MaxFuel)

(***************************************************************************)
(* The resolver applied to one input: a module of the local crate and a   *)
(* user-written path.                                                      *)
(***************************************************************************)
\* most segments of a generated user path
MaxSegs == 2

Segments ==
    { <<"foo">>, <<"bar">>, <<"f">>, <<"g">>, <<"h">>, <<"a">>, <<"b">>, <<"inner">>,
      <<"m">>, <<"util">>, <<"S">>, <<"zz">>, <<"other">>, <<"top">>,
      <<"self">>, <<"super">>, <<"crate">>, <<"{{root}}">> }

\* the user paths tried: the printed path of every function, the paths of up to
\* MaxSegs segments, some longer ones, and the empty string
UserNames ==
    {def_path_str(d) : d \in FnDefs}
    \cup {Join(p, SEP) : p \in UNION {[1 .. n -> Segments] : n \in 1 .. MaxSegs}}
    \cup { <<>>,
           <<"{{root}}", SEP, "other", SEP, "top">>,
           <<"{{root}}", SEP, "other", SEP, "util", SEP, "f">>,
           <<"{{root}}", SEP, "zz", SEP, "top">>,
           <<"{{root}}", SEP, "other", SEP, "util">>,
           <<"{{root}}", SEP, "other", SEP, "top", SEP, "f">>,
           <<"{{root}}", SEP, "other", SEP, "util", SEP, "top">>,
           <<"crate", SEP, "a", SEP, "g">>,
           <<"self", SEP, "super", SEP, "g">>,
           <<"m", SEP, "h", SEP, "zz">> }

ResInit ==
    /\ res_module \in LocalMods
    /\ res_name \in UserNames
    /\ res_result = None

ResIdle ==
    /\ res_module = 1
    /\ res_name = <<>>
    /\ res_result = None

\* a call of try_resolve
TryResolve ==
    /\ ~res_result.some
    /\ res_result' = Some(try_resolve(res_name, res_module))
    /\ UNCHANGED <<res_module, res_name>>
    /\ UNCHANGED <<genVars, collVars>>

(***************************************************************************)
(* The collection pass, AnnotationCollectorCallbacks::after_analysis.     *)
(***************************************************************************)
\* most attributes besides `proof` on the harness whose attributes vary
MaxAttrs == 2

\* tcx.hir_crate_items(()).items(): every item of the local crate, in order
hir_crate_items == SelectSeq(AllIds, LAMBDA d : IsLocal(d) /\ DefTable[d].parent # 0)

\* an attribute as the extractor hands it over: its name, and what
\* extract_path_arguments makes of it
Attr(name, args) == [name |-> name, args |-> args]

\* `util` names no function anywhere; in module b it is the local name of an
\* imported module
AttrNames ==
    { <<"foo">>, <<"self", SEP, "foo">>, <<"crate", SEP, "bar">>, <<"util">> }

AttrSet ==
    {Attr("stub_by", Some(<<o, r>>)) : o \in AttrNames, r \in AttrNames}
    \cup { Attr("stub_by", None),
           Attr("stub_by", Some(<< <<"foo">> >>)),
           Attr("stub_by", Some(<< <<"foo">>, <<"zz">>, <<"foo">> >>)),
           Attr("unwind", None) }

AttrSeqs == UNION {[1 .. n -> AttrSet] : n \in 0 .. MaxAttrs}

NoAttrs == [proof |-> FALSE, other |-> <<>>]

\* the harness whose attributes vary is `bar` (in the crate root),
\* a::inner::h or b::f; b::f is otherwise a harness with #[stub_by(g, f)];
\* a::g carries a stub_by and no proof
AttrsWith(h, other) ==
    [d \in DefIds |->
        IF d = h THEN [proof |-> TRUE, other |-> other]
        ELSE IF d = 12
        THEN [proof |-> TRUE,
              other |-> <<Attr("stub_by", Some(<< <<"g">>, <<"f">> >>))>>]
        ELSE IF d = 7
        THEN [proof |-> FALSE,
              other |-> <<Attr("stub_by", Some(<< <<"zz">>, <<"zz">> >>))>>]
        ELSE NoAttrs]

CollInit ==
    /\ attrs \in {AttrsWith(h, other) : h \in {3, 9, 12}, other \in AttrSeqs}
    /\ item_idx = 1
    /\ attr_idx = 0
    /\ stub_pairs = EmptyMap
    /\ stub_mapping = EmptyMap
    /\ diags = <<>>
    /\ coll_pc = "walk"
    /\ log = <<>>

CollIdle ==
    /\ attrs = [d \in DefIds |-> NoAttrs]
    /\ item_idx = 1
    /\ attr_idx = 0
    /\ stub_pairs = EmptyMap
    /\ stub_mapping = EmptyMap
    /\ diags = <<>>
    /\ coll_pc = "idle"
    /\ log = <<>>

CurItem == hir_crate_items[item_idx]

Unresolved(name) == [kind |-> "unresolved", name |-> name]

\* an extract_stub_by that pairs a resolved original with the replacement as
\* the user wrote it when the replacement does not resolve
StubByOutcomeUnchecked(attr, original, replacement) ==
    [crash |-> \/ original.kind \in {"Panic", "Diverge"}
               \/ replacement.kind \in {"Panic", "Diverge"},
     original |-> original,
     replacement |-> replacement,
     errs |-> IF original.kind = "None"
              THEN <<Unresolved(attr.args.val[1])>> ELSE <<>>,
     pair |-> IF original.kind = "Some" /\ replacement.kind = "Some"
              THEN Some(<<original.path, replacement.path>>)
              ELSE IF original.kind = "Some" /\ replacement.kind = "None"
              THEN Some(<<original.path, attr.args.val[2]>>)
              ELSE None]

\* an extract_stub_by that pairs the paths as the user wrote them once both
\* have resolved
StubByOutcomeAsWritten(attr, original, replacement) ==
    [crash |-> \/ original.kind \in {"Panic", "Diverge"}
               \/ replacement.kind \in {"Panic", "Diverge"},
     original |-> original,
     replacement |-> replacement,
     errs |-> (IF original.kind = "None"
               THEN <<Unresolved(attr.args.val[1])>> ELSE <<>>)
              \o (IF replacement.kind = "None"
                  THEN <<Unresolved(attr.args.val[2])>> ELSE <<>>),
     pair |-> IF original.kind = "Some" /\ replacement.kind = "Some"
              THEN Some(<<attr.args.val[1], attr.args.val[2]>>)
              ELSE None]

\* the tail of extract_stub_by, once both paths went through try_resolve:
\* the pair, the errors reported, and whether a resolution ended the process
StubByOutcome(attr, original, replacement) ==
    [crash |-> \/ original.kind \in {"Panic", "Diverge"}
               \/ replacement.kind \in {"Panic", "Diverge"},
     original |-> original,
     replacement |-> replacement,
     errs |-> (IF original.kind = "None"
               THEN <<Unresolved(attr.args.val[1])>> ELSE <<>>)
              \o (IF replacement.kind = "None"
                  THEN <<Unresolved(attr.args.val[2])>> ELSE <<>>),
     pair |-> IF original.kind = "Some" /\ replacement.kind = "Some"
              THEN Some(<<original.path, replacement.path>>)
              ELSE None]

\* extract_stub_by
extract_stub_by(attr, current_module) ==
    IF attr.args.some /\ Len(attr.args.val) = 2
    THEN StubByOutcome(attr,
                       try_resolve(attr.args.val[1], current_module),
                       try_resolve(attr.args.val[2], current_module))
    ELSE [crash |-> FALSE, original |-> ResNone, replacement |-> ResNone,
          errs |-> << [kind |-> "arity"] >>, pair |-> None]

\* a HashMap::insert that keeps an entry it finds
MapInsertKeepsOld(m, k, v) == IF k \in DOMAIN m THEN m ELSE MapInsert(m, k, v)

\* stub_pairs.insert(original, replacement) of update_stub_mapping
InsertPair(m, k, v) == MapInsert(m, k, v)

\* the `if let Some(..)` body of update_stub_mapping: the new stub set and the
\* errors reported
RecordPair(ex, pairs) ==
    IF ~ex.pair.some
    THEN [ex |-> ex, pairs |-> pairs, errs |-> ex.errs]
    ELSE [ex |-> ex,
          pairs |-> InsertPair(pairs, ex.pair.val[1], ex.pair.val[2]),
          errs |-> IF MapGet(pairs, ex.pair.val[1]).some
                   THEN << [kind |-> "duplicate", original |-> ex.pair.val[1],
                            replacement |-> ex.pair.val[2],
                            other |-> MapGet(pairs, ex.pair.val[1]).val] >>
                   ELSE <<>>]

\* update_stub_mapping
update_stub_mapping(attr, current_module, pairs) ==
    RecordPair(extract_stub_by(attr, current_module), pairs)

\* an after_analysis without the `if proof.is_empty() { continue; }`
VisitItemAsHarness ==
    /\ coll_pc = "walk" /\ attr_idx = 0
    /\ item_idx <= Len(hir_crate_items)
    /\ attr_idx' = 1
    /\ stub_pairs' = EmptyMap
    /\ UNCHANGED <<attrs, item_idx, stub_mapping, diags, coll_pc, log>>
    /\ UNCHANGED <<genVars, resVars>>

\* the walk reaches an item: one without a proof attribute is skipped
VisitItem ==
    /\ coll_pc = "walk" /\ attr_idx = 0
    /\ item_idx <= Len(hir_crate_items)
    /\ IF attrs[CurItem].proof
       THEN /\ attr_idx' = 1
            /\ stub_pairs' = EmptyMap
            /\ UNCHANGED item_idx
       ELSE /\ item_idx' = item_idx + 1
            /\ UNCHANGED <<attr_idx, stub_pairs>>
    /\ UNCHANGED <<attrs, stub_mapping, diags, coll_pc, log>>
    /\ UNCHANGED <<genVars, resVars>>

\* one turn of `for (name, attr) in other`
ProcessAttr ==
    /\ coll_pc = "walk" /\ attr_idx > 0
    /\ item_idx <= Len(hir_crate_items)
    /\ attr_idx <= Len(attrs[CurItem].other)
    /\ \E attr \in {attrs[CurItem].other[attr_idx]} :
           IF attr.name # "stub_by"
           THEN UNCHANGED <<stub_pairs, diags, coll_pc, log>>
           ELSE \E up \in {update_stub_mapping(
                               attr, parent_module_from_def_id(CurItem), stub_pairs)} :
                    IF up.ex.crash
                    THEN /\ coll_pc' = "crashed"
                         /\ UNCHANGED <<stub_pairs, diags, log>>
                    ELSE /\ stub_pairs' = up.pairs
                         /\ diags' = diags \o up.errs
                         /\ log' = Append(log, [item |-> CurItem, attr |-> attr_idx,
                                                original |-> up.ex.original,
                                                replacement |-> up.ex.replacement,
                                                pair |-> up.ex.pair,
                                                errs |-> up.errs,
                                                before |-> stub_pairs,
                                                after |-> up.pairs])
                         /\ UNCHANGED coll_pc
    /\ attr_idx' = attr_idx + 1
    /\ UNCHANGED <<attrs, item_idx, stub_mapping>>
    /\ UNCHANGED <<genVars, resVars>>

\* self.stub_mapping.insert(harness_name, stub_pairs)
EndItem ==
    /\ coll_pc = "walk" /\ attr_idx > 0
    /\ item_idx <= Len(hir_crate_items)
    /\ attr_idx > Len(attrs[CurItem].other)
    /\ stub_mapping' = MapInsert(stub_mapping, def_path_str(CurItem), stub_pairs)
    /\ item_idx' = item_idx + 1
    /\ attr_idx' = 0
    /\ UNCHANGED <<attrs, stub_pairs, diags, coll_pc, log>>
    /\ UNCHANGED <<genVars, resVars>>

\* an after_analysis that stops without tcx.sess.abort_if_errors()
FinishWithoutAbort ==
    /\ coll_pc = "walk" /\ attr_idx = 0
    /\ item_idx > Len(hir_crate_items)
    /\ coll_pc' = "stopped"
    /\ UNCHANGED <<attrs, item_idx, attr_idx, stub_pairs, stub_mapping, diags, log>>
    /\ UNCHANGED <<genVars, resVars>>

\* tcx.sess.abort_if_errors(); Compilation::Stop
Finish ==
    /\ coll_pc = "walk" /\ attr_idx = 0
    /\ item_idx > Len(hir_crate_items)
    /\ coll_pc' = IF diags # <<>> THEN "aborted" ELSE "stopped"
    /\ UNCHANGED <<attrs, item_idx, attr_idx, stub_pairs, stub_mapping, diags, log>>
    /\ UNCHANGED <<genVars, resVars>>

GenIdle ==
    /\ variant = "queries"
    /\ queries = EmptyMap
    /\ stubs_file = None
    /\ STUB_MAPPING = None
    /\ lock = [readers |-> 0, writer |-> FALSE, waiting |-> FALSE]
    /\ providers = [local |-> FALSE, extern |-> FALSE]
    /\ init_pc = [who |-> "none", line |-> 0]
    /\ stack = <<>>
    /\ returned = [d \in FnDefs |-> None]
    /\ fatal = "none"
    /\ history = [installs |-> 0, reads |-> FALSE, write_after_read |-> FALSE,
                  first_seen |-> None, last_seen |-> None, changed |-> FALSE,
                  queries |-> 0]

(***************************************************************************)
(* A generation run: the driver registers the providers, then the back    *)
(* end queries bodies.                                                     *)
(***************************************************************************)
Init == GenInit /\ ResIdle /\ CollIdle

Next ==
    \/ Provide
    \/ ProvideExtern
    \/ \E who \in {"local", "extern"} : InitializeBegin(who)
    \/ InitializeLine
    \/ InitializeEnd
    \/ \E d \in QueryDefs : Query(d)
    \/ IdentityStep
    \/ StubbingStep
    \/ ReturnStep

Spec == Init /\ [][Next]_vars

(***************************************************************************)
(* Resolution of one path, and a collection run.                           *)
(***************************************************************************)
ResolveInit == ResInit /\ GenIdle /\ CollIdle

ResolveNext == TryResolve

SpecResolve == ResolveInit /\ [][ResolveNext]_vars

CollectInit == CollInit /\ GenIdle /\ ResIdle

CollectNext ==
    \/ VisitItem
    \/ ProcessAttr
    \/ EndItem
    \/ Finish

SpecCollect == CollectInit /\ [][CollectNext]_vars

(***************************************************************************)
(* The store on its own: run_pass may be called at any moment, also while *)
(* provide / provide_extern are still installing.                          *)
(***************************************************************************)
StoreQuery(d) == BeginQuery(d)

StoreNext ==
    \/ Provide
    \/ ProvideExtern
    \/ \E who \in {"local", "extern"} : InitializeBegin(who)
    \/ InitializeLine
    \/ InitializeEnd
    \/ \E d \in QueryDefs : StoreQuery(d)
    \/ IdentityStep
    \/ StubbingStep
    \/ ReturnStep

SpecStore == Init /\ [][StoreNext]_vars

(***************************************************************************)
(* Properties of the generation phase.                                     *)
(***************************************************************************)
\* the map a stubs file denotes: each first token goes to the second token of
\* its last two-token line
FileMap(f) ==
    LET tok(i) == Split(f[i], BLANK)
        good == {i \in 1 .. Len(f) : Len(tok(i)) = 2}
        keys == {tok(i)[1] : i \in good}
        last(k) == CHOOSE i \in good :
                      /\ tok(i)[1] = k
                      /\ \A j \in good : tok(j)[1] = k => j <= i
    IN  [k \in keys |-> tok(last(k))[2]]

\* the complete map the installers of this run install
InstalledMap == IF variant = "queries" THEN queries ELSE FileMap(stubs_file.val)

\* the active map: the installed map as the run_pass reads found it
ActiveMap == history.last_seen.val

IsKey(d) == history.reads /\ def_path_str(d) \in DOMAIN ActiveMap

\* the local definitions whose canonical path is `path`
LocalDefsAt(path) == {r \in DefIds : IsLocal(r) /\ def_path_str(r) = path}

\* C1, as stated: for every D whose canonical path is a key and whose
\* replacement path is the canonical path of a local definition R, the body
\* the body query returned for D is the (base) body of R.
C1_StubbedBodyIsBaseOfReplacement ==
    \A d \in FnDefs :
        (returned[d].some /\ IsKey(d)) =>
            \A r \in LocalDefsAt(ActiveMap[def_path_str(d)]) :
                returned[d].val = BaseBody(r)

\* C1, amended: the body returned for D is the body the body query returned
\* for R; it is R's base body when R is not itself a key of the map.
C1_StubbedBodyIsQueryOfReplacement ==
    \A d \in FnDefs :
        (returned[d].some /\ IsKey(d)) =>
            \A r \in LocalDefsAt(ActiveMap[def_path_str(d)]) :
                /\ returned[r].some
                /\ returned[d].val = returned[r].val
                /\ ~IsKey(r) => returned[d].val = BaseBody(r)

\* C1 witness: a stubbed definition's query has returned its replacement's body
C1_Witness ==
    \E d \in FnDefs :
        /\ returned[d].some /\ IsKey(d)
        /\ \E r \in LocalDefsAt(ActiveMap[def_path_str(d)]) :
              r # d /\ returned[d].val = BaseBody(r)

\* C2: for every D whose canonical path is not a key of the installed map, the
\* body the body query returned is the base provider's body of D.
C2_UnstubbedBodyIsBase ==
    \A d \in FnDefs :
        (returned[d].some /\ history.reads /\ ~IsKey(d)) =>
            returned[d].val = BaseBody(d)

\* C2 witness: an unstubbed definition was queried while the map held stubs
C2_Witness ==
    \E d \in FnDefs :
        /\ returned[d].some /\ history.reads /\ ~IsKey(d)
        /\ DOMAIN ActiveMap # {}
        /\ variant = "legacy"

\* C5, as stated: installation is write-once; a later read sees the map of the
\* first install, and a second install attempt is detected (it ends in an
\* error instead of replacing the slot silently).
C5_SecondInstallDetected ==
    history.installs >= 2 => fatal # "none"

\* C6, as stated: in one generation run the map is written exactly once, before
\* the first body query, and never after a run_pass read.
C6_SingleInstallBeforeQueries ==
    /\ SetupDone => history.installs = 1
    /\ history.reads => history.installs = 1
    /\ ~history.write_after_read

\* C9: when D's path is a key and no local definition has the replacement's
\* path, the body query does not fail, returns D's base body, and leaves the
\* active map unchanged: every read finds the map the installers installed.
C9_MissingReplacementKeepsBody ==
    \A d \in FnDefs :
        (IsKey(d) /\ LocalDefsAt(ActiveMap[def_path_str(d)]) = {}) =>
            /\ returned[d].some => returned[d].val = BaseBody(d)
            /\ \A i \in 1 .. Len(stack) :
                  stack[i].def = d => (~stack[i].await /\ stack[i].body = BaseBody(d))
            /\ fatal = "none"
            /\ history.last_seen = Some(InstalledMap) /\ ~history.changed
            /\ lock.readers > 0 => STUB_MAPPING = Some(InstalledMap)

\* C9 witness: such a query has returned
C9_Witness ==
    \E d \in FnDefs :
        /\ IsKey(d) /\ LocalDefsAt(ActiveMap[def_path_str(d)]) = {}
        /\ returned[d].some

\* C10: a reader either finds the store not installed, which is fatal, or sees
\* the complete installed map; it never sees a partly filled map, and what it
\* sees never differs between two reads.
C10_ReaderSeesWholeMap ==
    /\ history.reads => /\ history.last_seen = Some(InstalledMap)
                        /\ history.first_seen = Some(InstalledMap)
                        /\ ~history.changed
    /\ fatal = "stub_mapping_not_installed" => ~STUB_MAPPING.some
    /\ lock.readers > 0 => STUB_MAPPING = Some(InstalledMap)

\* C10 witness: a read between the two installs of a legacy run, then one after
C10_Witness ==
    /\ variant = "legacy" /\ history.reads /\ history.installs = 2
    /\ history.write_after_read
    /\ init_pc.who = "none" /\ Len(stubs_file.val) = 2
    /\ Cardinality(DOMAIN STUB_MAPPING.val) = 2
    /\ \E d \in FnDefs : returned[d].some

(***************************************************************************)
(* Properties of the collection pass.                                      *)
(***************************************************************************)
\* log entries i < j of one harness whose attributes resolved to the same
\* original, i being the first of them
SameOriginal(i, j) ==
    /\ i < j
    /\ log[i].item = log[j].item
    /\ log[i].pair.some /\ log[j].pair.some
    /\ log[i].pair.val[1] = log[j].pair.val[1]
    /\ \A k \in 1 .. (i - 1) :
          ~(log[k].item = log[i].item /\ log[k].pair.some
            /\ log[k].pair.val[1] = log[i].pair.val[1])

IsDuplicateDiag(e) == e.kind = "duplicate"

ArgsOf(e) == attrs[e.item].other[e.attr].args

\* a log entry whose original or replacement failed to resolve
FailedToResolve(e) == e.original.kind = "None" \/ e.replacement.kind = "None"

\* the stub_by attributes of the harnesses, as (item, attribute index)
StubByAttrs ==
    {<<d, n>> \in DefIds \X (1 .. MaxAttrs) :
        /\ attrs[d].proof /\ n <= Len(attrs[d].other)
        /\ attrs[d].other[n].name = "stub_by"}

RECURSIVE IsAncestorOrSelf(_, _)
\* module m is module n or encloses it
IsAncestorOrSelf(m, n) ==
    \/ m = n
    \/ DefTable[n].parent # 0 /\ IsAncestorOrSelf(m, DefTable[n].parent)

RECURSIVE Visible(_, _)
\* the language's rule: a definition can be named from module m when it and
\* every module on the way to it is public or private to a module enclosing m
Visible(m, d) ==
    \/ DefTable[d].parent = 0
    \/ /\ \/ DefTable[d].pub
          \/ IsAncestorOrSelf(DefTable[d].parent, m)
       /\ Visible(m, DefTable[d].parent)

\* C4, as stated, for the functions of the crate: for every module M and every
\* function F visible from M, in M, in a nested child module or in another
\* module, resolving canonical_path(F) against M returns canonical_path(F).
C4_RoundTrip ==
    \A F \in FnDefs :
        (/\ res_result.some /\ IsLocal(F)
         /\ res_name = def_path_str(F) /\ Visible(res_module, F)) =>
            res_result.val = ResSome(def_path_str(F))

\* C7, as stated: every successful resolution returns the canonical path of a
\* function definition that the current module can name under the visibility
\* rules; never a function private to another module, never a non-function.
C7_ResolvedIsVisibleFunction ==
    (res_result.some /\ res_result.val.kind = "Some") =>
        \E F \in FnDefs :
            /\ def_path_str(F) = res_result.val.path
            /\ Visible(res_module, F)

\* C11, as stated: when module M defines function f and holds a glob import,
\* before or after f in item order, of a module with a function of the same
\* name, resolving "f" against M returns the canonical path of M's own f.
C11_OwnFunctionShadowsImport ==
    \A f \in FnDefs :
        (/\ res_result.some
         /\ IsLocal(f) /\ DefTable[f].parent = res_module
         /\ res_name = DefTable[f].name
         /\ \E u \in DefIds, g \in FnDefs :
               /\ DefTable[u].kind = "Use" /\ DefTable[u].parent = res_module
               /\ DefTable[u].ukind = "Glob"
               /\ DefTable[g].parent = DefTable[u].res
               /\ DefTable[g].name = DefTable[f].name) =>
            res_result.val = ResSome(def_path_str(f))

\* AnnotationCollector::run, once the compiler run has ended: Ok with the
\* outer mapping after Compilation::Stop, an error otherwise
run ==
    IF coll_pc = "stopped" THEN [ok |-> TRUE, val |-> stub_mapping]
    ELSE [ok |-> FALSE, val |-> EmptyMap]

ItemsDone == {hir_crate_items[k] : k \in 1 .. (item_idx - 1)}

\* C13: the key set of the outer mapping is exactly the set of canonical paths
\* of the items with a proof attribute, among the items walked so far and so
\* of all items when the pass ends; a harness without stub_by gets an empty
\* stub set; a stub_by on an item without proof adds no entry, is not
\* resolved and emits no diagnostic.
C13_KeysAreTheProofItems ==
    /\ DOMAIN stub_mapping = {def_path_str(d) : d \in {i \in ItemsDone : attrs[i].proof}}
    /\ coll_pc \in {"stopped", "aborted"} =>
          DOMAIN stub_mapping =
              {def_path_str(d) : d \in {i \in DefIds : IsLocal(i) /\ attrs[i].proof}}
    /\ \A d \in ItemsDone :
          (attrs[d].proof /\ \A n \in 1 .. Len(attrs[d].other) :
                                 attrs[d].other[n].name # "stub_by")
              => stub_mapping[def_path_str(d)] = EmptyMap
    /\ \A k \in 1 .. Len(log) : attrs[log[k].item].proof
    /\ \A d \in DefIds :
          ~attrs[d].proof =>
              \A n \in 1 .. Len(attrs[d].other), a \in 1 .. 2, e \in 1 .. Len(diags) :
                  (attrs[d].other[n].args.some /\ diags[e].kind = "unresolved") =>
                      diags[e].name # attrs[d].other[n].args.val[a]

\* C13 witness: the pass has ended; one harness without stub_by has an empty
\* stub set, another has pairs, and an item without proof carries a stub_by
C13_Witness ==
    /\ coll_pc \in {"stopped", "aborted"}
    /\ \E h \in DOMAIN stub_mapping : stub_mapping[h] = EmptyMap
    /\ \E h \in DOMAIN stub_mapping : stub_mapping[h] # EmptyMap
    /\ \E d \in DefIds :
          /\ ~attrs[d].proof /\ Len(attrs[d].other) > 0
          /\ attrs[d].other[1].name = "stub_by"
          /\ d \in ItemsDone

\* the paths the compiler prints for the function definitions
CanonicalFnPaths == {def_path_str(d) : d \in FnDefs}

\* the stub set under construction and the stub sets of the outer mapping
StubSets == {stub_pairs} \cup {stub_mapping[h] : h \in DOMAIN stub_mapping}

\* C14: at every point of the item walk, every key and every value of every
\* harness stub set is the canonical path the compiler prints for the function
\* the user path of some processed attribute resolved to; a user path that is
\* written otherwise than the canonical path is never stored.
C14_StubSetsHoldCanonicalPaths ==
    /\ \A m \in StubSets : \A k \in DOMAIN m :
          /\ k \in CanonicalFnPaths /\ m[k] \in CanonicalFnPaths
          /\ \E n \in 1 .. Len(log) :
                /\ log[n].original = ResSome(k)
                /\ log[n].replacement = ResSome(m[k])
                /\ log[n].pair = Some(<<k, m[k]>>)
    /\ \A n \in 1 .. Len(log) :
          log[n].pair.some =>
              /\ log[n].pair.val[1] = log[n].original.path
              /\ log[n].pair.val[2] = log[n].replacement.path
              /\ log[n].after[log[n].pair.val[1]] = log[n].pair.val[2]

\* C14 witness: a stored pair whose original and replacement were written by
\* the user otherwise than the compiler prints them
C14_Witness ==
    \E n \in 1 .. Len(log) :
        /\ log[n].pair.some
        /\ ArgsOf(log[n]).val[1] # log[n].pair.val[1]
        /\ ArgsOf(log[n]).val[2] # log[n].pair.val[2]
        /\ def_path_str(log[n].item) \in DOMAIN stub_mapping
        /\ log[n].pair.val[1] \in DOMAIN stub_mapping[def_path_str(log[n].item)]

(***************************************************************************)
(* Properties of the legacy installer.                                     *)
(***************************************************************************)
\* the tokens of a line: its non-empty pieces between blanks
Tokens(line) == SelectSeq(Split(line, BLANK), LAMBDA t : t # <<>>)

\* a line that is two tokens separated by one blank
TwoTokenLine(line) ==
    /\ Len(Tokens(line)) = 2
    /\ line = Tokens(line)[1] \o <<BLANK>> \o Tokens(line)[2]

\* some call of initialize has returned and none is running
InitializeReturned ==
    /\ variant = "legacy" /\ init_pc.who = "none"
    /\ providers.local \/ providers.extern

\* C15, as stated: for a file whose every line is two tokens separated by one
\* blank, initialize leaves the map that sends each first token to the second
\* token of its last line, after one call and after two; a line whose token
\* count is not two is a fatal error, so that no call of initialize returns.
C15_LegacyInstallerMap ==
    (variant = "legacy" /\ stubs_file.some) =>
        /\ (/\ \A n \in 1 .. Len(stubs_file.val) : TwoTokenLine(stubs_file.val[n])
            /\ InitializeReturned)
              => STUB_MAPPING = Some(FileMap(stubs_file.val))
        /\ (\E n \in 1 .. Len(stubs_file.val) : Len(Tokens(stubs_file.val[n])) # 2)
              => ~InitializeReturned

(***************************************************************************)
(* Properties of the relative search: a single import of a module.        *)
(***************************************************************************)
\* the search of an imported module: the body of the loop over used_mods
SearchImported(mod_id, path) ==
    IF IsLocal(mod_id)
    THEN try_resolve_relative_path(mod_id, path, MaxFuel)
    ELSE try_resolve_foreign_module(mod_id, path, MaxFuel)

\* the items of module m that import a module under one local name
SingleModuleImports(m) ==
    {u \in DefIds : /\ DefTable[u].kind = "Use" /\ DefTable[u].parent = m
                    /\ DefTable[u].ukind = "Single"
                    /\ try_resolve_use(<<>>, u).kind = "Mod"}

\* the segments the stated rule has module I searched with, for the import u
\* and the path P
StatedImportPath(u, P) ==
    IF /\ DefTable[u].name # DefTable[DefTable[u].res].name
       /\ DefTable[u].name = P[1]
    THEN RemoveFirst(P) ELSE P

\* C16, as stated: a relative search at M with segments P searches every
\* module I that a single import of M names, with P[1..] when the local name
\* is an alias equal to P[0] and with P otherwise; the first search that finds
\* a function ends the resolution, so a resolution that ends with no result
\* has found nothing in any such I.
C16_SingleImportAlwaysSearched ==
    (/\ res_result.some
     /\ res_result.val = ResNone
     /\ ~is_absolute_path(Split(res_name, SEP))) =>
        \A u \in SingleModuleImports(res_module) :
            SearchImported(DefTable[u].res,
                           StatedImportPath(u, Split(res_name, SEP))).kind # "Some"

(***************************************************************************)
(* Properties of the keyword arms of try_resolve_absolute_path_rec.       *)
(***************************************************************************)
\* the root module of the local crate
LocalRoot == CHOOSE m \in LocalMods : DefTable[m].parent = 0

\* C17: a path that is the single segment super or crate does not resolve;
\* super:: does not resolve from the crate root; from any other module
\* super::T gives what the relative search of T gives at the parent module,
\* and from any module crate::T gives what the relative search of T gives at
\* the crate root.
C17_SuperAndCrate ==
    res_result.some =>
        LET path == Split(res_name, SEP)
            T    == RemoveFirst(path)
        IN  /\ path \in { << <<"super">> >>, << <<"crate">> >> }
                  => res_result.val = ResNone
            /\ (path[1] = <<"super">> /\ res_module = LocalRoot)
                  => res_result.val = ResNone
            /\ (path[1] = <<"super">> /\ Len(path) > 1 /\ res_module # LocalRoot)
                  => res_result.val =
                         try_resolve_relative_path(DefTable[res_module].parent, T, MaxFuel)
            /\ (path[1] = <<"crate">> /\ Len(path) > 1)
                  => res_result.val = try_resolve_relative_path(LocalRoot, T, MaxFuel)

\* crate::bar, written two modules below the root, resolves to bar
C17_Witness ==
    /\ res_result.some
    /\ res_module # LocalRoot
    /\ DefTable[DefTable[res_module].parent].parent = LocalRoot
    /\ res_name = <<"crate", SEP, "bar">>
    /\ res_result.val = ResSome(<<"bar">>)

(***************************************************************************)
(* Properties of the "{{root}}" arm and of the foreign-module search.      *)
(***************************************************************************)
\* the functions of foreign crates whose printed path is p
ForeignFnsAt(p) == {f \in FnDefs : ~IsLocal(f) /\ def_path_str(f) = p}

\* C18: a {{root}} path gives None when fewer than two segments follow the
\* keyword or when no crate has the name of the next segment; otherwise it
\* gives the canonical path of the foreign function reached from the crate's
\* root by descending one child module per segment and ending, at the last
\* segment, at a child function of that name, and None when there is none.
C18_RootPath ==
    LET path == Split(res_name, SEP)
        rest == Join(RemoveFirst(path), SEP)
    IN  (res_result.some /\ path[1] = <<"{{root}}">>) =>
            /\ Len(path) < 3 => res_result.val = ResNone
            /\ (/\ Len(path) >= 3
                /\ \A k \in 1 .. Len(crates) : crate_name(crates[k]) # path[2])
                  => res_result.val = ResNone
            /\ (/\ Len(path) >= 3
                /\ \E k \in 1 .. Len(crates) : crate_name(crates[k]) = path[2])
                  => /\ ForeignFnsAt(rest) = {} => res_result.val = ResNone
                     /\ ForeignFnsAt(rest) # {} => res_result.val = ResSome(rest)

\* {{root}}::other::util::f descends into the module util and ends at f
C18_Witness ==
    /\ res_result.some
    /\ res_name = <<"{{root}}", SEP, "other", SEP, "util", SEP, "f">>
    /\ res_result.val = ResSome(<<"other", SEP, "util", SEP, "f">>)

(***************************************************************************)
(* Properties of run_kani_passes.                                          *)
(***************************************************************************)
\* the passes a frame has completed are the first ones of `order`, and the
\* frame has completed all of them when run_kani_passes is about to return
RanInOrder(f, order) ==
    /\ Len(f.ran) <= Len(order)
    /\ f.ran = SubSeq(order, 1, Len(f.ran))
    /\ f.pass > Len(KaniPasses) => f.ran = order

\* the body the base provider handed over is still the base provider's body
BaseUntouched(f) == f.base = BaseBody(f.def)

\* C19, as stated: in every body query the passes run in the order identity,
\* stubbing, and the base provider's body is not changed.
C19_IdentityThenStubbing ==
    \A i \in 1 .. Len(stack) :
        /\ RanInOrder(stack[i], <<"identity", "stubbing">>)
        /\ BaseUntouched(stack[i])

\* C19, amended: in every body query, of a local or a foreign definition, the
\* passes run on the clone in a fixed order, which is identity then stubbing in
\* the legacy wrapper and the stubbing pass alone in the wrapper that reads the
\* query store; the base provider's body is not changed, also when the clone
\* has been overwritten.
C19_FixedPassOrderOnClone ==
    \A i \in 1 .. Len(stack) :
        /\ RanInOrder(stack[i], IF variant = "legacy"
                                THEN <<"identity", "stubbing">>
                                ELSE <<"stubbing">>)
        /\ BaseUntouched(stack[i])

\* a legacy query has run both passes and its clone now differs from the base
\* body
C19_Witness ==
    /\ variant = "legacy"
    /\ stack # <<>>
    /\ Top.ran = <<"identity", "stubbing">>
    /\ Top.body # Top.base
    /\ BaseUntouched(Top)

(***************************************************************************)
(* Chained stubs: the nested body queries of run_pass.                     *)
(***************************************************************************)
\* a generation run in which every started step of a body query or of an
\* installer is eventually carried out: the code is sequential and none of
\* these steps waits for anything but the lock
SpecFair ==
    /\ Spec
    /\ WF_vars(IdentityStep) /\ WF_vars(StubbingStep) /\ WF_vars(ReturnStep)
    /\ WF_vars(InitializeLine) /\ WF_vars(InitializeEnd)

\* the map of this run, as a graph on canonical paths
RunMap ==
    IF variant = "queries" THEN queries
    ELSE IF stubs_file.some THEN FileMap(stubs_file.val)
    ELSE EmptyMap

\* the local definitions the map sends d to
StubsOf(d) ==
    IF def_path_str(d) \in DOMAIN RunMap
    THEN LocalDefsAt(RunMap[def_path_str(d)]) ELSE {}

RECURSIVE ChainEnd(_, _)
\* the definition at which the chain of stubs from d ends, following at most n
\* entries: None when the chain is longer, which with n = the number of entries
\* means that it runs into a cycle
ChainEnd(d, n) ==
    IF StubsOf(d) = {} THEN Some(d)
    ELSE IF n = 0 THEN None
    ELSE ChainEnd(CHOOSE r \in StubsOf(d) : \A q \in StubsOf(d) : r <= q, n - 1)

\* no cycle of the map is reachable from d
NoCycleFrom(d) == ChainEnd(d, Cardinality(DOMAIN RunMap)).some

\* the body a query for d returned is the base body of the end of d's chain
ReturnsChainEnd(d) ==
    (returned[d].some /\ NoCycleFrom(d)) =>
        returned[d].val = BaseBody(ChainEnd(d, Cardinality(DOMAIN RunMap)).val)

C21_ResolutionTerminates ==
    res_result.some => res_result.val.kind # "Diverge"

(***************************************************************************)
(* The lock with a writer that has to wait.  An installer that calls       *)
(* STUB_MAPPING.write() while a run_pass holds a read guard waits for it.  *)
(* std::sync::RwLock leaves open whether a waiting writer holds back new   *)
(* readers: where it does, the writer is queued (WriterWaits) and read()   *)
(* waits behind it; where it does not, the installer just stays disabled   *)
(* until the guards are dropped, as in Spec.                               *)
(***************************************************************************)
\* an installer of this run has still to take the write lock
InstallPending ==
    /\ init_pc.who = "none"
    /\ ~providers.local \/ ~providers.extern

\* set_stub_mapping / initialize: STUB_MAPPING.write() while a read guard is
\* held, on a lock that gives the queued writer precedence over new readers
WriterWaits ==
    /\ fatal = "none"
    /\ InstallPending
    /\ lock.readers > 0 /\ ~lock.writer /\ ~lock.waiting
    /\ lock' = [lock EXCEPT !.waiting = TRUE]
    /\ UNCHANGED <<variant, queries, stubs_file, STUB_MAPPING, providers, init_pc,
                   stack, returned, fatal, history>>
    /\ UNCHANGED <<resVars, collVars>>

LockNext ==
    \/ Provide
    \/ ProvideExtern
    \/ \E who \in {"local", "extern"} : InitializeBegin(who)
    \/ InitializeLine
    \/ InitializeEnd
    \/ \E d \in QueryDefs : Query(d)
    \/ IdentityStep
    \/ StubbingStep
    \/ ReturnStep
    \/ WriterWaits

\* a generation run on such a lock; every step that is able to run does run
SpecLock ==
    /\ Init /\ [][LockNext]_vars
    /\ WF_vars(IdentityStep) /\ WF_vars(StubbingStep) /\ WF_vars(ReturnStep)
    /\ WF_vars(Provide) /\ WF_vars(ProvideExtern)
    /\ WF_vars(\E who \in {"local", "extern"} : InitializeBegin(who))
    /\ WF_vars(InitializeLine) /\ WF_vars(InitializeEnd)

\* C22, as stated: under no interleaving with an install, a writer waiting
\* between the two acquisitions of the read lock included, does a body query
\* stay blocked forever: every body query in progress, for a definition from
\* which the map reaches no cycle, comes to its end.
C22_NoQueryBlockedForever ==
    (stack # <<>> /\ NoCycleFrom(stack[1].def)) ~> (stack = <<>>)

====
